---- MODULE Spec2Model ----
(***************************************************************************)
(* Model of settlement_stats.py: the stats engine that turns one           *)
(* TribeInput snapshot into one TribeStats value.                          *)
(*                                                                         *)
(* Python ints are unbounded, so integers are plain TLA+ integers.         *)
(* Python floats are carried as exact fractions [n, d] with a fixed         *)
(* denominator per field; the fractional trait effects production_pct and  *)
(* bm_pct are carried as integer hundredths, the way launch_ui builds      *)
(* them (value / 100.0).                                                   *)
(***************************************************************************)
EXTENDS Integers, FiniteSets, Sequences, TLC

VARIABLES input, pending, locals, stats, returned

vars == <<input, pending, locals, stats, returned>>

---------------------------------------------------------------------------
(* Bounds of the explored input space *)

MaxPop == 3
MaxStock == 4
MaxSteps == 3

---------------------------------------------------------------------------
(* Enumerations and lookup tables *)

Climate == {"tropical", "temperate", "polar", "snow"}

WaterBody == {"none", "river", "sea", "endorheic_lake", "flowing_lake"}

Cult == {"none", "strength", "labour", "mind", "health", "beauty", "renunciation"}

TechFlags == {"agriculture", "husbandry", "wheel", "building", "swimming", "alcoholism", "clothes"}

TechState == [TechFlags -> BOOLEAN]

CLIMATE_COLD_MORTALITY ==
  [tropical |-> 0, temperate |-> 10, polar |-> 20, snow |-> 30]

CLIMATE_DISEASE_MORTALITY ==
  [tropical |-> 20, temperate |-> 15, polar |-> 10, snow |-> 5]

RAFT_FERTILITY_BONUS ==
  [sea |-> 4, river |-> 6, endorheic_lake |-> 6, flowing_lake |-> 8]

(* dict.get(key, default) on RAFT_FERTILITY_BONUS *)
RaftBonusGet(water_body, default) ==
  IF water_body \in DOMAIN RAFT_FERTILITY_BONUS
    THEN RAFT_FERTILITY_BONUS[water_body]
    ELSE default

(* TribeInput() with every dataclass default *)
DefaultInput ==
  [population |-> 1000,
   experience |-> 4,
   base_fertility |-> 40,
   climate |-> "tropical",
   near_fresh_water |-> FALSE,
   water_body |-> "none",
   has_fish_resource |-> FALSE,
   tools |-> [hammers_pct |-> 0, clothing_pct |-> 0, alcohol_pct |-> 0, rafts_pct |-> 0],
   weapons |-> [clubs |-> 0, spears |-> 0, bows |-> 0],
   items |-> [settlement |-> FALSE, wagon |-> FALSE, casino_totem |-> FALSE],
   tech |-> [f \in TechFlags |-> FALSE],
   cult |-> "none",
   trait_effects |-> [fertility_bonus |-> 0, cold_mortality_delta |-> 0,
                      disease_mortality_delta |-> 0, production_pct |-> 0,
                      bm_pct |-> 0, speed_delta |-> 0, science_delta |-> 0]]

---------------------------------------------------------------------------
(* Python builtins used by the calculators *)

max(a, b) == IF a >= b THEN a ELSE b

min(a, b) == IF a <= b THEN a ELSE b

(* int(x) of the float n/d, d > 0: truncation toward zero *)
int(n, d) == IF n >= 0 THEN n \div d ELSE -((-n) \div d)

(* a float value n/d *)
Real(n, d) == [n |-> n, d |-> d]

---------------------------------------------------------------------------
(* Fertility calculator *)

(* _apply_clothing with the floor at zero forgotten *)
_apply_clothing_unclamped(cold_mortality, coverage_pct) ==
  LET steps == coverage_pct \div 20
  IN  cold_mortality - steps * 10

(* _apply_clothing with one step per 10% of coverage instead of per 20% *)
_apply_clothing_step10(cold_mortality, coverage_pct) ==
  LET steps == coverage_pct \div 10
  IN  max(0, cold_mortality - steps * 10)

_apply_clothing(cold_mortality, coverage_pct) ==
  LET steps == coverage_pct \div 20
  IN  max(0, cold_mortality - steps * 10)

_apply_alcohol(disease_mortality, coverage_pct) ==
  LET steps == coverage_pct \div 5
  IN  max(0, disease_mortality - steps)

(* _raft_bonus without the early return for a water body that has no base bonus *)
_raft_bonus_no_base_check(input_data) ==
  IF input_data.tools.rafts_pct = 0 THEN 0
  ELSE
    LET steps == input_data.tools.rafts_pct \div 20
        base_bonus == RaftBonusGet(input_data.water_body, 0)
        fish_bonus == IF input_data.water_body = "sea" THEN 2
                      ELSE IF input_data.has_fish_resource THEN 3 ELSE 0
        penalty == (IF input_data.tech.husbandry THEN 4 * steps ELSE 0)
                   + (IF input_data.tech.agriculture THEN 4 * steps ELSE 0)
        total_bonus == steps * (base_bonus + fish_bonus) - penalty
    IN  max(0, total_bonus)

_raft_bonus(input_data) ==
  IF input_data.tools.rafts_pct = 0 THEN 0
  ELSE
    LET steps == input_data.tools.rafts_pct \div 20
        base_bonus == RaftBonusGet(input_data.water_body, 0)
    IN  IF base_bonus = 0 THEN 0
        ELSE
          LET fish_bonus == IF input_data.water_body = "sea" THEN 2
                            ELSE IF input_data.has_fish_resource THEN 3 ELSE 0
              penalty == (IF input_data.tech.husbandry THEN 4 * steps ELSE 0)
                         + (IF input_data.tech.agriculture THEN 4 * steps ELSE 0)
              total_bonus == steps * (base_bonus + fish_bonus) - penalty
          IN  max(0, total_bonus)

calculate_fertility(input_data) ==
  LET fertility == input_data.base_fertility + input_data.trait_effects.fertility_bonus
                   + (IF input_data.near_fresh_water THEN 10 ELSE 0)
      cold0 == CLIMATE_COLD_MORTALITY[input_data.climate]
               + input_data.trait_effects.cold_mortality_delta
      disease0 == CLIMATE_DISEASE_MORTALITY[input_data.climate]
                  + input_data.trait_effects.disease_mortality_delta
      cold_mortality ==
        _apply_clothing(cold0, IF input_data.tech.clothes
                               THEN input_data.tools.clothing_pct ELSE 0)
      disease_mortality ==
        _apply_alcohol(disease0, IF input_data.tech.alcoholism
                                 THEN input_data.tools.alcohol_pct ELSE 0)
  IN  [fertility |-> fertility,
       cold_mortality |-> cold_mortality,
       disease_mortality |-> disease_mortality,
       raft_bonus |-> _raft_bonus(input_data)]

(* FertilityBreakdown.growth_rate *)
growth_rate(f) == f.fertility + f.raft_bonus - f.cold_mortality - f.disease_mortality

---------------------------------------------------------------------------
(* Battle-power calculator *)

(* _weapon_allocation with `remaining` never decremented *)
_weapon_allocation_no_decrement(population, weapons) ==
  [bows |-> min(weapons.bows, population),
   spears |-> min(weapons.spears, population),
   clubs |-> min(weapons.clubs, population)]

(* _weapon_allocation filling the slots in the order clubs, spears, bows *)
_weapon_allocation_clubs_first(population, weapons) ==
  LET club_used == min(weapons.clubs, population)
      remaining1 == population - club_used
      spear_used == min(weapons.spears, remaining1)
      remaining2 == remaining1 - spear_used
      bow_used == min(weapons.bows, remaining2)
  IN  [bows |-> bow_used, spears |-> spear_used, clubs |-> club_used]

_weapon_allocation(population, weapons) ==
  LET bow_used == min(weapons.bows, population)
      remaining1 == population - bow_used
      spear_used == min(weapons.spears, remaining1)
      remaining2 == remaining1 - spear_used
      club_used == min(weapons.clubs, remaining2)
  IN  [bows |-> bow_used, spears |-> spear_used, clubs |-> club_used]

calculate_battle_stats(input_data) ==
  LET weapon_usage == _weapon_allocation(input_data.population, input_data.weapons)
      weapon_bonus == weapon_usage.clubs * 1 + weapon_usage.spears * 2
                      + weapon_usage.bows * 3
      raw_int == (input_data.population + weapon_bonus) * input_data.experience
      raw_power == Real(raw_int * (100 + input_data.trait_effects.bm_pct), 100)
      scaled_power == Real(raw_power.n * (IF input_data.items.settlement THEN 3 ELSE 2),
                           100 * 4000 * 2)
  IN  [battle_power_raw |-> raw_power,
       battle_power_scaled |-> scaled_power,
       weapon_usage |-> weapon_usage]

---------------------------------------------------------------------------
(* Production calculator *)

calculate_production(input_data) ==
  LET base_op == Real(input_data.population, 1)
      hammer_bonus == Real((input_data.tools.hammers_pct \div 10) * 5
                           * input_data.population, 100)
      cult_modifier == IF input_data.cult = "labour" THEN Real(10, 100)
                       ELSE IF input_data.cult = "renunciation" THEN Real(-10, 100)
                       ELSE Real(0, 100)
      trait_modifier == Real(input_data.trait_effects.production_pct, 100)
  IN  [base_op |-> base_op,
       hammer_bonus |-> hammer_bonus,
       cult_modifier |-> cult_modifier,
       trait_modifier |-> trait_modifier]

(* ProductionStats.total_op *)
total_op(p) ==
  Real((100 * p.base_op.n + p.hammer_bonus.n)
       * (100 + p.cult_modifier.n + p.trait_modifier.n), 100 * 100)

---------------------------------------------------------------------------
(* Science calculator *)

(* calculate_science with the flat baseline of 2 forgotten *)
calculate_science_no_baseline(input_data) ==
  LET passive == IF input_data.items.settlement /\ input_data.tech.building
                 THEN 1 ELSE 0
      cult_bonus == IF input_data.cult = "mind" THEN 1
                    ELSE IF input_data.cult = "renunciation" THEN -1 ELSE 0
      item_bonus == input_data.trait_effects.science_delta
  IN  [passive_science |-> passive, cult_bonus |-> cult_bonus, item_bonus |-> item_bonus]

calculate_science(input_data) ==
  LET passive == (IF input_data.items.settlement /\ input_data.tech.building
                  THEN 1 ELSE 0) + 2
      cult_bonus == IF input_data.cult = "mind" THEN 1
                    ELSE IF input_data.cult = "renunciation" THEN -1 ELSE 0
      item_bonus == (IF input_data.items.casino_totem THEN 0 ELSE 0)
                    + input_data.trait_effects.science_delta
  IN  [passive_science |-> passive, cult_bonus |-> cult_bonus, item_bonus |-> item_bonus]

(* ScienceStats.total_science *)
total_science(s) == s.passive_science + s.cult_bonus + s.item_bonus

---------------------------------------------------------------------------
(* Resource-income calculator *)

(* calculate_dna_income doubling only the human channel *)
calculate_dna_income_human_only(input_data) ==
  LET human == 1 + (IF input_data.cult = "renunciation" THEN 1 ELSE 0)
      animal == IF input_data.tech.husbandry THEN 1 ELSE 0
      plant == IF input_data.tech.agriculture THEN 1 ELSE 0
  IN  IF input_data.tech.alcoholism
        THEN [human |-> human * 2, animal |-> animal, plant |-> plant]
        ELSE [human |-> human, animal |-> animal, plant |-> plant]

calculate_dna_income(input_data) ==
  LET human == 1 + (IF input_data.cult = "renunciation" THEN 1 ELSE 0)
      animal == IF input_data.tech.husbandry THEN 1 ELSE 0
      plant == IF input_data.tech.agriculture THEN 1 ELSE 0
  IN  IF input_data.tech.alcoholism
        THEN [human |-> human * 2, animal |-> animal * 2, plant |-> plant * 2]
        ELSE [human |-> human, animal |-> animal, plant |-> plant]

---------------------------------------------------------------------------
(* Speed and squad-capacity calculator *)

(* the squad capacity of calculate_speed_and_squads with the weapon checks *)
(* in the order clubs, spears, bows                                        *)
calculate_speed_and_squads_clubs_first(input_data) ==
  LET speed0 == 400 + input_data.trait_effects.speed_delta
      speed1 == IF input_data.items.wagon /\ input_data.tech.wheel
                  THEN int(speed0 * 3, 2) ELSE speed0
      speed == IF input_data.cult = "health" THEN speed1 + 50
               ELSE IF input_data.cult = "renunciation" THEN speed1 - 50
               ELSE speed1
      squads0 == IF input_data.weapons.clubs >= input_data.population THEN 2
                 ELSE IF input_data.weapons.spears >= input_data.population THEN 3
                 ELSE IF input_data.weapons.bows >= input_data.population THEN 4
                 ELSE 1
      max_squads == IF input_data.items.wagon /\ input_data.tech.wheel
                      THEN max(squads0, 4) ELSE squads0
  IN  [speed |-> speed, max_squads |-> max_squads]

(* calculate_speed_and_squads with the cult adjustment made before the *)
(* wagon multiplier                                                     *)
calculate_speed_and_squads_cult_first(input_data) ==
  LET speed0 == 400 + input_data.trait_effects.speed_delta
      speed1 == IF input_data.cult = "health" THEN speed0 + 50
                ELSE IF input_data.cult = "renunciation" THEN speed0 - 50
                ELSE speed0
      speed == IF input_data.items.wagon /\ input_data.tech.wheel
                 THEN int(speed1 * 3, 2) ELSE speed1
      fully_armed == \/ input_data.weapons.bows >= input_data.population
                     \/ input_data.weapons.spears >= input_data.population
                     \/ input_data.weapons.clubs >= input_data.population
      squads0 == IF fully_armed
                   THEN IF input_data.weapons.bows >= input_data.population THEN 4
                        ELSE IF input_data.weapons.spears >= input_data.population THEN 3
                        ELSE 2
                   ELSE 1
      max_squads == IF input_data.items.wagon /\ input_data.tech.wheel
                      THEN max(squads0, 4) ELSE squads0
  IN  [speed |-> speed, max_squads |-> max_squads]

(* calculate_speed_and_squads reading the swimming flag where it should *)
(* read the wheel flag                                                  *)
calculate_speed_and_squads_swimming(input_data) ==
  LET speed0 == 400 + input_data.trait_effects.speed_delta
      speed1 == IF input_data.items.wagon /\ input_data.tech.swimming
                  THEN int(speed0 * 3, 2) ELSE speed0
      speed == IF input_data.cult = "health" THEN speed1 + 50
               ELSE IF input_data.cult = "renunciation" THEN speed1 - 50
               ELSE speed1
      fully_armed == \/ input_data.weapons.bows >= input_data.population
                     \/ input_data.weapons.spears >= input_data.population
                     \/ input_data.weapons.clubs >= input_data.population
      squads0 == IF fully_armed
                   THEN IF input_data.weapons.bows >= input_data.population THEN 4
                        ELSE IF input_data.weapons.spears >= input_data.population THEN 3
                        ELSE 2
                   ELSE 1
      max_squads == IF input_data.items.wagon /\ input_data.tech.swimming
                      THEN max(squads0, 4) ELSE squads0
  IN  [speed |-> speed, max_squads |-> max_squads]

(* calculate_speed_and_squads giving the +50 of the health cult to the *)
(* strength cult                                                      *)
calculate_speed_and_squads_strength(input_data) ==
  LET speed0 == 400 + input_data.trait_effects.speed_delta
      speed1 == IF input_data.items.wagon /\ input_data.tech.wheel
                  THEN int(speed0 * 3, 2) ELSE speed0
      speed == IF input_data.cult = "strength" THEN speed1 + 50
               ELSE IF input_data.cult = "renunciation" THEN speed1 - 50
               ELSE speed1
      fully_armed == \/ input_data.weapons.bows >= input_data.population
                     \/ input_data.weapons.spears >= input_data.population
                     \/ input_data.weapons.clubs >= input_data.population
      squads0 == IF fully_armed
                   THEN IF input_data.weapons.bows >= input_data.population THEN 4
                        ELSE IF input_data.weapons.spears >= input_data.population THEN 3
                        ELSE 2
                   ELSE 1
      max_squads == IF input_data.items.wagon /\ input_data.tech.wheel
                      THEN max(squads0, 4) ELSE squads0
  IN  [speed |-> speed, max_squads |-> max_squads]

calculate_speed_and_squads(input_data) ==
  LET speed0 == 400 + input_data.trait_effects.speed_delta
      speed1 == IF input_data.items.wagon /\ input_data.tech.wheel
                  THEN int(speed0 * 3, 2) ELSE speed0
      speed == IF input_data.cult = "health" THEN speed1 + 50
               ELSE IF input_data.cult = "renunciation" THEN speed1 - 50
               ELSE speed1
      fully_armed == \/ input_data.weapons.bows >= input_data.population
                     \/ input_data.weapons.spears >= input_data.population
                     \/ input_data.weapons.clubs >= input_data.population
      squads0 == IF fully_armed
                   THEN IF input_data.weapons.bows >= input_data.population THEN 4
                        ELSE IF input_data.weapons.spears >= input_data.population THEN 3
                        ELSE 2
                   ELSE 1
      max_squads == IF input_data.items.wagon /\ input_data.tech.wheel
                      THEN max(squads0, 4) ELSE squads0
  IN  [speed |-> speed, max_squads |-> max_squads]

---------------------------------------------------------------------------
(* Orchestrator *)

compute_stats(input_data) ==
  [fertility |-> calculate_fertility(input_data),
   production |-> calculate_production(input_data),
   battle |-> calculate_battle_stats(input_data),
   science |-> calculate_science(input_data),
   dna_income |-> calculate_dna_income(input_data),
   speed |-> calculate_speed_and_squads(input_data).speed,
   max_squads |-> calculate_speed_and_squads(input_data).max_squads]

---------------------------------------------------------------------------
(* Explored inputs: each family varies the fields one calculator reads and *)
(* leaves the other fields at their dataclass defaults.                    *)

Populations == (0..MaxPop) \cup {DefaultInput.population}

Stocks == 0..MaxStock

ClothingPcts == {p \in 0..(20 * MaxSteps + 19) : p % 20 \in {0, 19}}

AlcoholPcts == {p \in 0..(5 * MaxSteps + 4) : p % 5 \in {0, 4}}

RaftPcts == {p \in 0..(20 * MaxSteps + 19) : p % 20 \in {0, 10}}

HammerPcts == {p \in 0..(10 * MaxSteps + 9) : p % 10 \in {0, 9}}

BaseFertilities == {-15, 40}

FertilityBonuses == {-50, 0, 5}

MortalityDeltas == {-5, 0, 5}

SpeedDeltas == {-501, -401, -400, -1, 0, 1, 51}

ScienceDeltas == {-1, 0, 3}

PctDeltas == {-10, 0, 25}

ColdInputs ==
  {[DefaultInput EXCEPT !.climate = c, !.base_fertility = b, !.near_fresh_water = w,
                        !.tools.clothing_pct = p, !.tech.clothes = t,
                        !.trait_effects.fertility_bonus = fb,
                        !.trait_effects.cold_mortality_delta = d] :
     c \in Climate, b \in BaseFertilities, w \in BOOLEAN, p \in ClothingPcts,
     t \in BOOLEAN, fb \in FertilityBonuses, d \in MortalityDeltas}

DiseaseInputs ==
  {[DefaultInput EXCEPT !.climate = c, !.tools.alcohol_pct = p, !.tech.alcoholism = t,
                        !.trait_effects.disease_mortality_delta = d] :
     c \in Climate, p \in AlcoholPcts, t \in BOOLEAN, d \in MortalityDeltas}

RaftInputs ==
  {[DefaultInput EXCEPT !.tools.rafts_pct = p, !.water_body = wb,
                        !.has_fish_resource = fish,
                        !.tech.husbandry = h, !.tech.agriculture = a] :
     p \in RaftPcts, wb \in WaterBody, fish \in BOOLEAN, h \in BOOLEAN, a \in BOOLEAN}

WeaponInputs ==
  {[DefaultInput EXCEPT !.population = n,
                        !.weapons = [clubs |-> c, spears |-> s, bows |-> b],
                        !.items.wagon = wg, !.tech.wheel = wh] :
     n \in Populations, c \in Stocks, s \in Stocks, b \in Stocks,
     wg \in BOOLEAN, wh \in BOOLEAN}

ProductionInputs ==
  {[DefaultInput EXCEPT !.population = n, !.tools.hammers_pct = p, !.cult = cu,
                        !.trait_effects.production_pct = d,
                        !.trait_effects.bm_pct = d,
                        !.items.settlement = st] :
     n \in Populations, p \in HammerPcts, cu \in Cult, d \in PctDeltas, st \in BOOLEAN}

ScienceInputs ==
  {[DefaultInput EXCEPT !.items.settlement = st, !.items.casino_totem = ct,
                        !.tech.building = bl, !.cult = cu,
                        !.trait_effects.science_delta = d] :
     st \in BOOLEAN, ct \in BOOLEAN, bl \in BOOLEAN, cu \in Cult, d \in ScienceDeltas}

DnaInputs ==
  {[DefaultInput EXCEPT !.cult = cu, !.tech.husbandry = h, !.tech.agriculture = a,
                        !.tech.alcoholism = al] :
     cu \in Cult, h \in BOOLEAN, a \in BOOLEAN, al \in BOOLEAN}

SpeedInputs ==
  {[DefaultInput EXCEPT !.trait_effects.speed_delta = d, !.items.wagon = wg,
                        !.tech.wheel = wh, !.cult = cu] :
     d \in SpeedDeltas, wg \in BOOLEAN, wh \in BOOLEAN, cu \in Cult}

(* a settlement with every item, some of every tool, water and cold *)
EquippedInput ==
  [DefaultInput EXCEPT !.climate = "polar", !.water_body = "river",
                       !.tools = [hammers_pct |-> 10, clothing_pct |-> 20,
                                  alcohol_pct |-> 5, rafts_pct |-> 20],
                       !.items = [settlement |-> TRUE, wagon |-> TRUE,
                                  casino_totem |-> TRUE]]

TechInputs ==
  {[base EXCEPT !.tech = t] : base \in {DefaultInput, EquippedInput}, t \in TechState}

(* every cult for an equipped settlement, unarmed and armed *)
CultInputs ==
  {[EquippedInput EXCEPT !.cult = cu, !.population = n,
                         !.weapons = [clubs |-> n, spears |-> k, bows |-> k]] :
     cu \in Cult, n \in {0, MaxPop}, k \in {0, 1}}

TribeInputs ==
  ColdInputs \cup DiseaseInputs \cup RaftInputs \cup WeaponInputs \cup ProductionInputs
  \cup ScienceInputs \cup DnaInputs \cup SpeedInputs \cup TechInputs \cup CultInputs

---------------------------------------------------------------------------
(* compute_stats as a state machine: the six calculator calls, each        *)
(* storing its result in a local of compute_stats, then the return that    *)
(* assembles TribeStats.                                                   *)

Calculators == <<"fertility", "production", "battle", "science", "dna_income", "speed_squads">>

CalcIndex(c) == CHOOSE k \in DOMAIN Calculators : Calculators[k] = c

(* c is the next call in the statement order of compute_stats *)
Turn(c) == c \in pending /\ \A d \in pending : CalcIndex(c) <= CalcIndex(d)

(* locals of compute_stats before any assignment *)
UnsetLocals ==
  [fertility |-> [fertility |-> 0, cold_mortality |-> 0, disease_mortality |-> 0,
                  raft_bonus |-> 0],
   production |-> [base_op |-> Real(0, 1), hammer_bonus |-> Real(0, 100),
                   cult_modifier |-> Real(0, 100), trait_modifier |-> Real(0, 100)],
   battle |-> [battle_power_raw |-> Real(0, 100),
               battle_power_scaled |-> Real(0, 100 * 4000 * 2),
               weapon_usage |-> [bows |-> 0, spears |-> 0, clubs |-> 0]],
   science |-> [passive_science |-> 0, cult_bonus |-> 0, item_bonus |-> 0],
   dna_income |-> [human |-> 0, animal |-> 0, plant |-> 0],
   speed |-> 0,
   squads |-> 0]

TribeStats(l) ==
  [fertility |-> l.fertility, production |-> l.production, battle |-> l.battle,
   science |-> l.science, dna_income |-> l.dna_income,
   speed |-> l.speed, max_squads |-> l.squads]

InitFrom(inputs) ==
  /\ input \in inputs
  /\ pending = {Calculators[k] : k \in DOMAIN Calculators}
  /\ locals = UnsetLocals
  /\ stats = TribeStats(UnsetLocals)
  /\ returned = FALSE

Init == InitFrom(TribeInputs)

Finish(c) ==
  /\ pending' = pending \ {c}
  /\ UNCHANGED <<stats, returned>>

call_calculate_fertility ==
  /\ "fertility" \in pending
  /\ locals' = [locals EXCEPT !.fertility = calculate_fertility(input)]
  /\ input' = input
  /\ Finish("fertility")

call_calculate_production ==
  /\ "production" \in pending
  /\ locals' = [locals EXCEPT !.production = calculate_production(input)]
  /\ input' = input
  /\ Finish("production")

(* the battle call with the allocation counting down the caller's *)
(* population field instead of its own local `remaining`          *)
call_calculate_battle_stats_in_place ==
  /\ "battle" \in pending
  /\ locals' = [locals EXCEPT !.battle = calculate_battle_stats(input)]
  /\ input' = [input EXCEPT !.population =
                 @ - calculate_battle_stats(input).weapon_usage.bows
                   - calculate_battle_stats(input).weapon_usage.spears
                   - calculate_battle_stats(input).weapon_usage.clubs]
  /\ Finish("battle")

call_calculate_battle_stats ==
  /\ "battle" \in pending
  /\ locals' = [locals EXCEPT !.battle = calculate_battle_stats(input)]
  /\ input' = input
  /\ Finish("battle")

call_calculate_science ==
  /\ "science" \in pending
  /\ locals' = [locals EXCEPT !.science = calculate_science(input)]
  /\ input' = input
  /\ Finish("science")

call_calculate_dna_income ==
  /\ "dna_income" \in pending
  /\ locals' = [locals EXCEPT !.dna_income = calculate_dna_income(input)]
  /\ input' = input
  /\ Finish("dna_income")

call_calculate_speed_and_squads ==
  /\ "speed_squads" \in pending
  /\ locals' = [locals EXCEPT !.speed = calculate_speed_and_squads(input).speed,
                              !.squads = calculate_speed_and_squads(input).max_squads]
  /\ input' = input
  /\ Finish("speed_squads")

compute_stats_return ==
  /\ pending = {}
  /\ ~returned
  /\ stats' = TribeStats(locals)
  /\ returned' = TRUE
  /\ UNCHANGED <<input, pending, locals>>

(* the calls in the statement order of compute_stats *)
Next ==
  \/ Turn("fertility") /\ call_calculate_fertility
  \/ Turn("production") /\ call_calculate_production
  \/ Turn("battle") /\ call_calculate_battle_stats
  \/ Turn("science") /\ call_calculate_science
  \/ Turn("dna_income") /\ call_calculate_dna_income
  \/ Turn("speed_squads") /\ call_calculate_speed_and_squads
  \/ compute_stats_return

Spec == Init /\ [][Next]_vars

---------------------------------------------------------------------------
(* The six calls taken in any order: each call is one step, and steps of   *)
(* different calculators may be taken in any sequence.                     *)

ConcInputs ==
  {i \in WeaponInputs : ~i.items.wagon /\ ~i.tech.wheel} \cup TechInputs \cup SpeedInputs

InitAnyOrder == InitFrom(ConcInputs)

NextAnyOrder ==
  \/ call_calculate_fertility
  \/ call_calculate_production
  \/ call_calculate_battle_stats
  \/ call_calculate_science
  \/ call_calculate_dna_income
  \/ call_calculate_speed_and_squads
  \/ compute_stats_return

SpecAnyOrder == InitAnyOrder /\ [][NextAnyOrder]_vars

---------------------------------------------------------------------------
(* Properties *)

(* C1, as stated: after calculate_fertility, fertility, cold_mortality and *)
(* disease_mortality are all non-negative.                                 *)
C1_AllClamped ==
  returned =>
    /\ stats.fertility.fertility >= 0
    /\ stats.fertility.cold_mortality >= 0
    /\ stats.fertility.disease_mortality >= 0

(* C1, amended: cold_mortality and disease_mortality are non-negative;     *)
(* fertility is not clamped and is negative exactly when                   *)
(* base_fertility + fertility_bonus + (10 if near_fresh_water) is.         *)
C1_MortalityClamped ==
  returned =>
    /\ stats.fertility.cold_mortality >= 0
    /\ stats.fertility.disease_mortality >= 0
    /\ (stats.fertility.fertility < 0) <=>
         (input.base_fertility + input.trait_effects.fertility_bonus
          + (IF input.near_fresh_water THEN 10 ELSE 0) < 0)

(* a negative fertility next to a cold mortality that the floor raised to 0 *)
C1_Witness ==
  /\ returned
  /\ stats.fertility.fertility < 0
  /\ input.tech.clothes
  /\ CLIMATE_COLD_MORTALITY[input.climate] + input.trait_effects.cold_mortality_delta
       - 10 * (input.tools.clothing_pct \div 20) < 0
  /\ stats.fertility.cold_mortality = 0

(* C2: the usage of each weapon type is within its stock, the three usages *)
(* together are within the population, and spears are used only when all   *)
(* bows are, clubs only when all bows and all spears are.                  *)
C2_AllocationBounded ==
  returned =>
    LET used == stats.battle.weapon_usage
        stock == input.weapons
    IN  /\ \A t \in {"clubs", "spears", "bows"} : 0 <= used[t] /\ used[t] <= stock[t]
        /\ used.bows + used.spears + used.clubs <= input.population
        /\ used.spears > 0 => used.bows = stock.bows
        /\ used.clubs > 0 => used.bows = stock.bows /\ used.spears = stock.spears

(* all three types in use and clubs left over *)
C2_Witness ==
  /\ returned
  /\ stats.battle.weapon_usage.bows > 0
  /\ stats.battle.weapon_usage.spears > 0
  /\ stats.battle.weapon_usage.clubs > 0
  /\ stats.battle.weapon_usage.clubs < input.weapons.clubs

StockIncrements == (1..MaxStock) \cup {DefaultInput.population}

AllBelow(i) ==
  /\ i.weapons.clubs < i.population
  /\ i.weapons.spears < i.population
  /\ i.weapons.bows < i.population

(* C3: raising one weapon stock never lowers max_squads, and leaves it     *)
(* unchanged while all three stocks stay below the population.             *)
C3_SquadsMonotone ==
  returned =>
    \A t \in {"clubs", "spears", "bows"}, k \in StockIncrements :
      LET more == [input EXCEPT !.weapons[t] = @ + k]
          squads == calculate_speed_and_squads(more).max_squads
      IN  /\ squads >= stats.max_squads
          /\ AllBelow(input) /\ AllBelow(more) => squads = stats.max_squads

(* clubs for everyone, and enough spears would raise the capacity to 3 *)
C3_Witness ==
  /\ returned
  /\ stats.max_squads = 2
  /\ input.weapons.spears < input.population
  /\ \E k \in StockIncrements :
       /\ input.weapons.spears + k >= input.population
       /\ calculate_speed_and_squads(
            [input EXCEPT !.weapons.spears = @ + k]).max_squads = 3

(* C4: each channel with alcoholism is twice the channel without, other    *)
(* fields equal, and every channel is a non-negative integer.              *)
C4_IncomeDoubled ==
  returned =>
    LET sober == calculate_dna_income([input EXCEPT !.tech.alcoholism = FALSE])
        drunk == calculate_dna_income([input EXCEPT !.tech.alcoholism = TRUE])
    IN  \A ch \in {"human", "animal", "plant"} :
          /\ stats.dna_income[ch] \in Nat
          /\ input.tech.alcoholism => stats.dna_income[ch] = 2 * sober[ch]
          /\ ~input.tech.alcoholism => drunk[ch] = 2 * stats.dna_income[ch]

(* alcoholism with renunciation and husbandry: human 4, animal 2 *)
C4_Witness ==
  /\ returned
  /\ input.tech.alcoholism
  /\ input.cult = "renunciation"
  /\ stats.dna_income.human = 4
  /\ stats.dna_income.animal = 2

(* C5: raft_bonus is 0 whenever rafts_pct is 0 or the water body is none.  *)
C5_NoRaftBonus ==
  returned /\ (input.tools.rafts_pct = 0 \/ input.water_body = "none")
    => stats.fertility.raft_bonus = 0

(* rafts and fish but no water body *)
C5_Witness ==
  /\ returned
  /\ input.tools.rafts_pct >= 20
  /\ input.water_body = "none"
  /\ input.has_fish_resource
  /\ stats.fertility.raft_bonus = 0

(* cold_mortality of the current input with its clothing coverage set to p *)
ColdAt(p) ==
  calculate_fertility([input EXCEPT !.tools.clothing_pct = p]).cold_mortality

(* C6, as stated: with clothes unlocked, coverage of 20-39% lowers         *)
(* cold_mortality by exactly 10 relative to coverage 0, for every climate  *)
(* and every cold_mortality_delta.                                         *)
C6_ExactlyTen ==
  returned /\ input.tech.clothes
    /\ input.tools.clothing_pct >= 20 /\ input.tools.clothing_pct <= 39
    => ColdAt(0) - stats.fertility.cold_mortality = 10

(* C6, amended: with clothes unlocked, coverage 0-19% leaves cold          *)
(* mortality as at coverage 0; coverage 20-39% lowers it by 10, or by the  *)
(* whole of it when it is below 10 at coverage 0; more coverage never      *)
(* gives a higher cold mortality; the result is never below 0.  With       *)
(* clothes not unlocked the coverage has no effect.                        *)
C6_ClothingSteps ==
  returned =>
    LET pct == input.tools.clothing_pct
        cold == stats.fertility.cold_mortality
    IN  /\ cold >= 0
        /\ input.tech.clothes =>
             /\ pct <= 19 => cold = ColdAt(0)
             /\ pct >= 20 /\ pct <= 39 => ColdAt(0) - cold = min(10, ColdAt(0))
             /\ \A q \in ClothingPcts : q >= pct => ColdAt(q) <= cold
        /\ ~input.tech.clothes => \A q \in ClothingPcts : ColdAt(q) = cold

(* one step of clothing against a cold mortality of 5: reduced to 0, by 5 *)
C6_Witness ==
  /\ returned
  /\ input.tech.clothes
  /\ input.tools.clothing_pct = 39
  /\ ColdAt(0) = 5
  /\ stats.fertility.cold_mortality = 0

(* C7: the statistics of the default input. *)
C7_Defaults ==
  returned /\ input = DefaultInput =>
    /\ growth_rate(stats.fertility) = 20
    /\ total_op(stats.production).n = 1000 * total_op(stats.production).d
    /\ stats.battle.battle_power_raw.n = 4000 * stats.battle.battle_power_raw.d
    /\ stats.battle.battle_power_scaled.n = 1 * stats.battle.battle_power_scaled.d
    /\ total_science(stats.science) = 2
    /\ stats.dna_income = [human |-> 1, animal |-> 0, plant |-> 0]
    /\ stats.speed = 400
    /\ stats.max_squads = 1

(* compute_stats has returned for the default input *)
C7_Witness ==
  /\ returned
  /\ input = DefaultInput
  /\ stats.fertility.fertility = 40

CultSpeed(cult) ==
  IF cult = "health" THEN 50 ELSE IF cult = "renunciation" THEN -50 ELSE 0

(* C8, as stated: speed is 400 + speed_delta, multiplied by 1.5 and        *)
(* rounded toward minus infinity when wagon and wheel are both present,    *)
(* then +50 for health, -50 for renunciation.                              *)
C8_SpeedFloor ==
  returned =>
    LET s0 == 400 + input.trait_effects.speed_delta
        s1 == IF input.items.wagon /\ input.tech.wheel THEN (3 * s0) \div 2 ELSE s0
    IN  stats.speed = s1 + CultSpeed(input.cult)

(* C8, amended: as stated, except that the product with 1.5 is rounded     *)
(* toward zero: down for a non-negative 400 + speed_delta, up for a        *)
(* negative one.                                                           *)
C8_SpeedTruncated ==
  returned =>
    LET s0 == 400 + input.trait_effects.speed_delta
        s1 == stats.speed - CultSpeed(input.cult)
    IN  IF input.items.wagon /\ input.tech.wheel
          THEN /\ s0 >= 0 => 2 * s1 <= 3 * s0 /\ 3 * s0 < 2 * s1 + 2
               /\ s0 < 0 => 2 * s1 >= 3 * s0 /\ 3 * s0 > 2 * s1 - 2
          ELSE s1 = s0

(* wagon and wheel with a negative odd base speed and a cult adjustment *)
C8_Witness ==
  /\ returned
  /\ input.items.wagon /\ input.tech.wheel
  /\ input.trait_effects.speed_delta = -401
  /\ input.cult = "renunciation"
  /\ stats.speed = -51

(* the input with one tech flag flipped *)
Toggle(i, f) == [i EXCEPT !.tech[f] = ~@]

(* the tech flags for which two explored inputs differing only in the flag *)
(* have different statistics                                               *)
GatingFlags ==
  {f \in TechFlags : \E i \in TribeInputs : compute_stats(Toggle(i, f)) # compute_stats(i)}

(* C9, as stated: each of the seven tech flags changes the statistics of   *)
(* some input; in particular the flags that leave the returned statistics  *)
(* of the current input unchanged still change those of another input.     *)
C9_AllFlagsGate ==
  returned =>
    \A f \in TechFlags :
      compute_stats(Toggle(input, f)) = stats => f \in GatingFlags

(* C9, amended: each of agriculture, husbandry, wheel, building,           *)
(* alcoholism and clothes changes the statistics of some input; swimming   *)
(* changes the statistics of no input.                                     *)
C9_AllButSwimmingGate ==
  /\ \A f \in TechFlags \ {"swimming"} : f \in GatingFlags
  /\ returned => compute_stats(Toggle(input, "swimming")) = stats

(* an input whose statistics change with each flag but swimming *)
C9_Witness ==
  /\ returned
  /\ \A f \in TechFlags \ {"swimming"} : compute_stats(Toggle(input, f)) # stats
  /\ compute_stats(Toggle(input, "swimming")) = stats

(* C10: no call changes the input, and whatever the order of the six       *)
(* calls the assembled TribeStats is the one of the statement order.       *)
C10_OrderFree ==
  /\ [][input' = input]_vars
  /\ [](returned => stats = compute_stats(input))

(* speed and squads computed, with weapons in use, before the battle,      *)
(* production and fertility calls                                          *)
C10_Witness ==
  /\ "speed_squads" \notin pending
  /\ {"fertility", "production", "battle"} \subseteq pending
  /\ input.weapons.bows > 0
  /\ input.population > 0

(* C11: with the cult strength or beauty, compute_stats returns the        *)
(* TribeStats it returns for the same input with the cult none.            *)
C11_ReservedCults ==
  returned /\ input.cult \in {"strength", "beauty"}
    => stats = compute_stats([input EXCEPT !.cult = "none"])

(* the strength cult on an input whose statistics the renunciation cult    *)
(* would change in production, science, income and speed                   *)
C11_Witness ==
  /\ returned
  /\ input.cult = "strength"
  /\ input.population > 0
  /\ LET other == compute_stats([input EXCEPT !.cult = "renunciation"])
     IN  /\ other.production # stats.production
         /\ other.science # stats.science
         /\ other.dna_income # stats.dna_income
         /\ other.speed # stats.speed

(* the allocations of weapons to population slots that respect the stocks *)
Allocations(population, weapons) ==
  {a \in [clubs : 0..weapons.clubs, spears : 0..weapons.spears, bows : 0..weapons.bows] :
     a.clubs + a.spears + a.bows <= population}

(* 1 per club, 2 per spear, 3 per bow *)
BonusOf(a) == a.clubs * 1 + a.spears * 2 + a.bows * 3

(* C12: the weapons in use number min(population, total stock); the weapon *)
(* bonus that enters battle_power_raw is the bonus of the usage, no        *)
(* allocation within the stocks and the population has a larger bonus, and *)
(* the bonus is at most 3 * population.                                    *)
C12_GreedyOptimal ==
  returned =>
    LET used == stats.battle.weapon_usage
        stock == input.weapons
    IN  /\ used.clubs + used.spears + used.bows
             = min(input.population, stock.clubs + stock.spears + stock.bows)
        /\ used \in Allocations(input.population, stock)
        /\ \A a \in Allocations(input.population, stock) : BonusOf(a) <= BonusOf(used)
        /\ BonusOf(used) <= 3 * input.population
        /\ stats.battle.battle_power_raw.n
             = (input.population + BonusOf(used)) * input.experience
               * (100 + input.trait_effects.bm_pct)

(* more weapons than people: every bow and spear in use, some clubs in use *)
(* and some clubs left over                                                *)
C12_Witness ==
  /\ returned
  /\ input.weapons.clubs + input.weapons.spears + input.weapons.bows > input.population
  /\ stats.battle.weapon_usage.bows = input.weapons.bows
  /\ stats.battle.weapon_usage.bows > 0
  /\ stats.battle.weapon_usage.spears > 0
  /\ stats.battle.weapon_usage.clubs > 0
  /\ stats.battle.weapon_usage.clubs < input.weapons.clubs

====
